---- MODULE Spec2Model ----
(***************************************************************************)
(* Tintwind: the colour-scale generator, the nearest-name lookup, the CSS  *)
(* export and the React state of src/src/App.tsx.                          *)
(*                                                                         *)
(* Text is a sequence of one-character strings, so that parsing,           *)
(* formatting and concatenation are computed character by character.       *)
(* A colour is its 24-bit value r*65536 + g*256 + b.  The numeric results  *)
(* of the chroma-js library (Lab coordinates, OKLCH triples, LCH mixes)    *)
(* are tabulated for the colours of the model; the tables hold the values  *)
(* the library computes, Lab in hundredths and OKLCH in thousandths.       *)
(***************************************************************************)
EXTENDS Integers, Sequences, FiniteSets, TLC

VARIABLES
  baseColor,        \* useState("#6366f1")
  colorScale,       \* useState<ColorScale>([])
  baseColorName,    \* useState("Indigo")
  copiedColor,      \* useState<string | null>(null)
  showExportModal,  \* useState(false)
  exportCode,       \* useState("")
  effects,          \* passive effects of the last render still to run
  queued,           \* state updates queued by the effects that ran
  timers,           \* number of pending setTimeout callbacks of copyToClipboard
  NAMED_COLORS,     \* the dictionary imported from lib/constants
  fnArg,            \* argument of the last direct call of a function
  fnRet,            \* what that call returned or threw
  firstRun,         \* history: the outputs of one earlier run, and whether its base colour ran again
  inputValue,       \* README.md version: useState("#6366f1"), the text of the text field
  deferredBaseColor \* README.md version: useDeferredValue(baseColor)

vars == <<baseColor, colorScale, baseColorName, copiedColor, showExportModal,
          exportCode, effects, queued, timers, NAMED_COLORS, fnArg, fnRet, firstRun,
          inputValue, deferredBaseColor>>

-----------------------------------------------------------------------------
(* Characters and JavaScript string methods *)

HexDigits == <<"0", "1", "2", "3", "4", "5", "6", "7", "8", "9", "a", "b", "c", "d", "e", "f">>

DecDigits == <<"0", "1", "2", "3", "4", "5", "6", "7", "8", "9">>

LowerChars == <<"a", "b", "c", "d", "e", "f", "g", "h", "i", "j", "k", "l", "m", "n", "o", "p", "q", "r", "s", "t", "u", "v", "w", "x", "y", "z">>

UpperChars == <<"A", "B", "C", "D", "E", "F", "G", "H", "I", "J", "K", "L", "M", "N", "O", "P", "Q", "R", "S", "T", "U", "V", "W", "X", "Y", "Z">>

Whitespace == {" ", "\t", "\n"}

IndexOf(c, s) ==
  IF \E i \in 1..Len(s) : s[i] = c
  THEN CHOOSE i \in 1..Len(s) : s[i] = c /\ \A j \in 1..(i - 1) : s[j] # c
  ELSE 0

toLowerCaseChar(c) ==
  LET k == IndexOf(c, UpperChars) IN IF k = 0 THEN c ELSE LowerChars[k]

toLowerCase(s) ==
  [i \in 1..Len(s) |-> toLowerCaseChar(s[i])]

toUpperCaseChar(c) ==
  LET k == IndexOf(c, LowerChars) IN IF k = 0 THEN c ELSE UpperChars[k]

toUpperCase(s) ==
  [i \in 1..Len(s) |-> toUpperCaseChar(s[i])]

RECURSIVE NatToText(_)
NatToText(n) ==
  IF n < 10 THEN <<DecDigits[n + 1]>>
  ELSE NatToText(n \div 10) \o <<DecDigits[(n % 10) + 1]>>

(* Number.prototype.toFixed(3) of a value given in thousandths *)
toFixed3(m) ==
  LET a == IF m < 0 THEN -m ELSE m
      f == a % 1000
  IN (IF m < 0 THEN <<"-">> ELSE <<>>)
     \o NatToText(a \div 1000) \o <<".">>
     \o <<DecDigits[(f \div 100) + 1], DecDigits[((f \div 10) % 10) + 1], DecDigits[(f % 10) + 1]>>

RECURSIVE join(_, _)
join(parts, sep) ==
  IF Len(parts) = 0 THEN <<>>
  ELSE IF Len(parts) = 1 THEN parts[1]
  ELSE parts[1] \o sep \o join(Tail(parts), sep)

-----------------------------------------------------------------------------
(* chroma-js *)

NaN == -999999

isNaN(v) == v = NaN

HexVal(c) == IndexOf(toLowerCaseChar(c), HexDigits) - 1

IsHex(s) == \A i \in 1..Len(s) : HexVal(s[i]) >= 0

HexByteVal(hi, lo) == HexVal(hi) * 16 + HexVal(lo)

(* the named colours of chroma's w3cx11 table that the model's inputs use *)
W3CX11 ==
  { <<(<<"b", "l", "a", "c", "k">>), 0>>,
    <<(<<"r", "e", "d">>), 16711680>>,
    <<(<<"w", "h", "i", "t", "e">>), 16777215>> }

(* chroma(str): the colour of a string, or an "unknown format" error *)
chroma(str) ==
  LET low == toLowerCase(str)
      body == IF Len(str) > 0 /\ str[1] = "#" THEN Tail(str) ELSE str
  IN IF \E n \in W3CX11 : n[1] = low
     THEN [threw |-> FALSE, rgb |-> (CHOOSE n \in W3CX11 : n[1] = low)[2]]
     ELSE IF Len(body) = 6 /\ IsHex(body)
     THEN [threw |-> FALSE,
           rgb |-> HexByteVal(body[1], body[2]) * 65536
                   + HexByteVal(body[3], body[4]) * 256
                   + HexByteVal(body[5], body[6])]
     ELSE IF Len(body) = 3 /\ IsHex(body)
     THEN [threw |-> FALSE,
           rgb |-> HexByteVal(body[1], body[1]) * 65536
                   + HexByteVal(body[2], body[2]) * 256
                   + HexByteVal(body[3], body[3])]
     ELSE [threw |-> TRUE, rgb |-> 0]

chroma_valid(str) == ~chroma(str).threw

HexByte(n) == <<HexDigits[(n \div 16) + 1], HexDigits[(n % 16) + 1]>>

(* Color.hex(): "#rrggbb" in lower case *)
chroma_hex(rgb) ==
  <<"#">> \o HexByte(rgb \div 65536) \o HexByte((rgb \div 256) % 256) \o HexByte(rgb % 256)

LabTable ==
  (0 :> <<0, 0, 0>>) @@
  (32767 :> <<5444, 1940, -7136>>) @@
  (723723 :> <<302, 0, 0>>) @@
  (5204422 :> <<4677, 1905, -5155>>) @@
  (6514417 :> <<5010, 3869, -7049>>) @@
  (16711680 :> <<5324, 8009, 6720>>) @@
  (16777215 :> <<10000, 0, 0>>)

OklchTable ==
  (0 :> <<0, 0, -999999>>) @@
  (3713 :> <<285, 181, 264206>>) @@
  (8325 :> <<314, 169, 263574>>) @@
  (8860 :> <<345, 195, 263886>>) @@
  (13474 :> <<382, 183, 262476>>) @@
  (19392 :> <<455, 194, 260788>>) @@
  (25823 :> <<533, 204, 258712>>) @@
  (32767 :> <<613, 212, 256330>>) @@
  (866232 :> <<413, 206, 264334>>) @@
  (3158064 :> <<309, 0, -999999>>) @@
  (4280020 :> <<499, 203, 272320>>) @@
  (6184542 :> <<482, 0, -999999>>) @@
  (6514417 :> <<585, 204, 277117>>) @@
  (6920191 :> <<692, 161, 264573>>) @@
  (7733248 :> <<355, 146, 29234>>) @@
  (9143285 :> <<669, 165, 284191>>) @@
  (9539985 :> <<657, 0, -999999>>) @@
  (9830400 :> <<423, 173, 29234>>) @@
  (9940991 :> <<767, 118, 270678>>) @@
  (11313400 :> <<750, 125, 289268>>) @@
  (12058624 :> <<491, 202, 29234>>) @@
  (12438015 :> <<845, 77, 274890>>) @@
  (13027014 :> <<827, 0, -999999>>) @@
  (13221883 :> <<833, 84, 292120>>) @@
  (14352384 :> <<560, 230, 29234>>) @@
  (14673151 :> <<923, 37, 277321>>) @@
  (15065085 :> <<918, 41, 294750>>) @@
  (15856113 :> <<958, 0, -999999>>) @@
  (16251135 :> <<980, 9, 279692>>) @@
  (16381951 :> <<980, 11, 297630>>) @@
  (16711680 :> <<628, 258, 29234>>) @@
  (16735034 :> <<685, 205, 33257>>) @@
  (16746857 :> <<754, 151, 36115>>) @@
  (16757401 :> <<831, 97, 38742>>) @@
  (16767435 :> <<914, 47, 41270>>) @@
  (16774642 :> <<977, 12, 37422>>) @@
  (16777215 :> <<1000, 0, -999999>>)

MixTable ==
  (<<0, 0, 20>> :> 0) @@
  (<<0, 0, 40>> :> 0) @@
  (<<0, 0, 60>> :> 0) @@
  (<<0, 0, 80>> :> 0) @@
  (<<0, 32767, 20>> :> 8325) @@
  (<<0, 32767, 40>> :> 13474) @@
  (<<0, 32767, 60>> :> 19392) @@
  (<<0, 32767, 80>> :> 25823) @@
  (<<0, 6514417, 20>> :> 3713) @@
  (<<0, 6514417, 40>> :> 8860) @@
  (<<0, 6514417, 60>> :> 866232) @@
  (<<0, 6514417, 80>> :> 4280020) @@
  (<<0, 16711680, 20>> :> 7733248) @@
  (<<0, 16711680, 40>> :> 9830400) @@
  (<<0, 16711680, 60>> :> 12058624) @@
  (<<0, 16711680, 80>> :> 14352384) @@
  (<<0, 16777215, 20>> :> 3158064) @@
  (<<0, 16777215, 40>> :> 6184542) @@
  (<<0, 16777215, 60>> :> 9539985) @@
  (<<0, 16777215, 80>> :> 13027014) @@
  (<<16777215, 0, 5>> :> 15856113) @@
  (<<16777215, 0, 20>> :> 13027014) @@
  (<<16777215, 0, 40>> :> 9539985) @@
  (<<16777215, 0, 60>> :> 6184542) @@
  (<<16777215, 0, 80>> :> 3158064) @@
  (<<16777215, 32767, 5>> :> 16251135) @@
  (<<16777215, 32767, 20>> :> 14673151) @@
  (<<16777215, 32767, 40>> :> 12438015) @@
  (<<16777215, 32767, 60>> :> 9940991) @@
  (<<16777215, 32767, 80>> :> 6920191) @@
  (<<16777215, 6514417, 5>> :> 16381951) @@
  (<<16777215, 6514417, 20>> :> 15065085) @@
  (<<16777215, 6514417, 40>> :> 13221883) @@
  (<<16777215, 6514417, 60>> :> 11313400) @@
  (<<16777215, 6514417, 80>> :> 9143285) @@
  (<<16777215, 16711680, 5>> :> 16774642) @@
  (<<16777215, 16711680, 20>> :> 16767435) @@
  (<<16777215, 16711680, 40>> :> 16757401) @@
  (<<16777215, 16711680, 60>> :> 16746857) @@
  (<<16777215, 16711680, 80>> :> 16735034) @@
  (<<16777215, 16777215, 5>> :> 16777215) @@
  (<<16777215, 16777215, 20>> :> 16777215) @@
  (<<16777215, 16777215, 40>> :> 16777215) @@
  (<<16777215, 16777215, 60>> :> 16777215) @@
  (<<16777215, 16777215, 80>> :> 16777215)

(* Color.oklch(): <<L, C, H>> in thousandths, H = NaN for an achromatic colour *)
chroma_oklch(rgb) == OklchTable[rgb]

(* chroma.mix(col1, col2, f, "lch"), f in percent; throws when either colour does not parse *)
chroma_mix(col1, col2, f) ==
  LET c1 == chroma(col1)
      c2 == chroma(col2)
  IN IF c1.threw \/ c2.threw THEN [threw |-> TRUE, rgb |-> 0]
     ELSE [threw |-> FALSE, rgb |-> MixTable[<<c1.rgb, c2.rgb, f>>]]

(* chroma.distance(a, b, "lab"): the Euclidean distance of the Lab coordinates, *)
(* kept as its square (the order of two distances is the order of their squares) *)
chroma_distance(a, b) ==
  LET c1 == chroma(a)
      c2 == chroma(b)
  IN IF c1.threw \/ c2.threw THEN [threw |-> TRUE, val |-> 0]
     ELSE LET p == LabTable[c1.rgb]
              q == LabTable[c2.rgb]
          IN [threw |-> FALSE,
              val |-> (p[1] - q[1]) * (p[1] - q[1]) + (p[2] - q[2]) * (p[2] - q[2])
                      + (p[3] - q[3]) * (p[3] - q[3])]


-----------------------------------------------------------------------------
(* src/src/App.tsx, module level *)

SCALE_STEPS == <<50, 100, 200, 300, 400, 500, 600, 700, 800, 900>>

Custom == <<"C", "u", "s", "t", "o", "m">>

RECURSIVE skipWhitespace(_)
skipWhitespace(s) ==
  IF Len(s) > 0 /\ s[1] \in Whitespace THEN skipWhitespace(Tail(s)) ELSE s

(* variant of replaceWhitespaceRuns: replace(/\s/g, "-"), a hyphen for each *)
(* whitespace character *)
replaceWhitespaceRuns_each(s) ==
  [i \in 1..Len(s) |-> IF s[i] \in Whitespace THEN "-" ELSE s[i]]

(* String.prototype.replace(/\s+/g, "-") *)
RECURSIVE replaceWhitespaceRuns(_)
replaceWhitespaceRuns(s) ==
  IF Len(s) = 0 THEN <<>>
  ELSE IF s[1] \in Whitespace
  THEN <<"-">> \o replaceWhitespaceRuns(skipWhitespace(s))
  ELSE <<s[1]>> \o replaceWhitespaceRuns(Tail(s))

toCssVarName(name) == replaceWhitespaceRuns(toLowerCase(name))

Infinity == 2147483647

(* variant of isCloser: an entry at an equal distance replaces the closest one *)
isCloser_orEqual(distance, minDistance) == distance <= minDistance

(* variant of isCloser: only entries within 50 Lab units count as a match *)
isCloser_within(distance, minDistance) == distance < minDistance /\ distance < 25000000

(* line 44: the test that lets an entry replace the closest one so far *)
isCloser(distance, minDistance) == distance < minDistance

(* lines 40-48: the loop over NAMED_COLORS from entry i on; an error of *)
(* chroma.distance leaves the loop *)
RECURSIVE closestFrom(_, _, _, _)
closestFrom(hex, i, minDistance, closestName) ==
  IF i > Len(NAMED_COLORS) THEN [threw |-> FALSE, name |-> closestName]
  ELSE LET distance == chroma_distance(hex, NAMED_COLORS[i].hex)
       IN IF distance.threw THEN [threw |-> TRUE, name |-> <<>>]
          ELSE IF isCloser(distance.val, minDistance)
          THEN closestFrom(hex, i + 1, distance.val, NAMED_COLORS[i].name)
          ELSE closestFrom(hex, i + 1, minDistance, closestName)

(* variant of getClosestColorName: no catch, the error reaches the caller *)
getClosestColorName_rethrow(hex) == closestFrom(hex, 1, Infinity, Custom)

(* variant of getClosestColorName: minDistance starts at 0 *)
getClosestColorName_zero(hex) ==
  LET r == closestFrom(hex, 1, 0, Custom)
  IN IF r.threw THEN [threw |-> FALSE, name |-> Custom] ELSE r

(* lines 35-54: try { loop } catch { return "Custom" } *)
getClosestColorName(hex) ==
  LET r == closestFrom(hex, 1, Infinity, Custom)
  IN IF r.threw THEN [threw |-> FALSE, name |-> Custom] ELSE r

-----------------------------------------------------------------------------
(* generateColorScale *)

(* variant of mixRatios: the ratios of steps 100 and 200 change places *)
mixRatios_lightSwapped == <<95, 60, 80, 40, 20, 0, 20, 40, 60, 80>>

(* variant of mixRatios: the ratios of steps 800 and 900 change places *)
mixRatios_darkSwapped == <<95, 80, 60, 40, 20, 0, 20, 40, 80, 60>>

(* line 78, in percent *)
mixRatios == <<95, 80, 60, 40, 20, 0, 20, 40, 60, 80>>

HexWhite == <<"#", "f", "f", "f", "f", "f", "f">>

HexBlack == <<"#", "0", "0", "0", "0", "0", "0">>

(* line 79 *)
mixColors(color) ==
  <<HexWhite, HexWhite, HexWhite, HexWhite, HexWhite, color, HexBlack, HexBlack, HexBlack, HexBlack>>

(* variant of hexScaleStep: step 500 goes through chroma(color).hex() *)
hexScaleStep_converted(color, index) ==
  LET c == IF index = 5 THEN chroma(color)
           ELSE chroma_mix(mixColors(color)[index + 1], color, 100 - mixRatios[index + 1])
  IN IF c.threw THEN [threw |-> TRUE, hex |-> <<>>]
     ELSE [threw |-> FALSE, hex |-> chroma_hex(c.rgb)]

(* lines 84-90: the callback of mixRatios.map, index counted from 0 *)
hexScaleStep(color, index) ==
  IF index = 5 THEN [threw |-> FALSE, hex |-> color]
  ELSE LET mixedColor == chroma_mix(mixColors(color)[index + 1], color,
                                    100 - mixRatios[index + 1])
       IN IF mixedColor.threw THEN [threw |-> TRUE, hex |-> <<>>]
          ELSE [threw |-> FALSE, hex |-> chroma_hex(mixedColor.rgb)]

(* variant of formatOklch: v.toFixed(3) without the isNaN test *)
formatOklch_plain(v) == IF isNaN(v) THEN <<"N", "a", "N">> ELSE toFixed3(v)

(* line 95 *)
formatOklch(v) == IF isNaN(v) THEN <<"0", ".", "0", "0", "0">> ELSE toFixed3(v)

(* lines 92-101: the callback of hexScale.map *)
colorDataOf(hex) ==
  LET c == chroma(hex)
  IN IF c.threw THEN [threw |-> TRUE, data |-> [hex |-> hex, oklch |-> <<>>]]
     ELSE LET oklchArray == chroma_oklch(c.rgb)
              oklchValue == join([k \in 1..3 |-> formatOklch(oklchArray[k])], <<" ">>)
          IN [threw |-> FALSE,
              data |-> [hex |-> hex,
                        oklch |-> <<"o", "k", "l", "c", "h", "(">> \o oklchValue \o <<")">>]]

(* variant of generateColorScale: each step has its own try, a failed mix is *)
(* left out and a failed conversion leaves the oklch text empty *)
generateColorScale_stepwise(color) ==
  LET hexScale == SelectSeq([i \in 1..Len(mixRatios) |-> hexScaleStep(color, i - 1)],
                            LAMBDA st : ~st.threw)
  IN [threw |-> FALSE, scale |-> [i \in 1..Len(hexScale) |-> colorDataOf(hexScale[i].hex).data]]

(* variant of generateColorScale: no catch, the error reaches the caller *)
generateColorScale_rethrow(color) ==
  LET hexScale == [i \in 1..Len(mixRatios) |-> hexScaleStep(color, i - 1)]
  IN IF \E i \in 1..Len(mixRatios) : hexScale[i].threw
     THEN [threw |-> TRUE, scale |-> <<>>]
     ELSE [threw |-> FALSE,
           scale |-> [i \in 1..Len(mixRatios) |-> colorDataOf(hexScale[i].hex).data]]

(* lines 75-106: both maps inside try; any error gives [] *)
generateColorScale(color) ==
  LET hexScale == [i \in 1..Len(mixRatios) |-> hexScaleStep(color, i - 1)]
  IN IF \E i \in 1..Len(mixRatios) : hexScale[i].threw
     THEN [threw |-> FALSE, scale |-> <<>>]
     ELSE LET steps == [i \in 1..Len(mixRatios) |-> colorDataOf(hexScale[i].hex)]
          IN IF \E i \in 1..Len(mixRatios) : steps[i].threw
             THEN [threw |-> FALSE, scale |-> <<>>]
             ELSE [threw |-> FALSE, scale |-> [i \in 1..Len(mixRatios) |-> steps[i].data]]

-----------------------------------------------------------------------------
(* handleExportCss *)

(* line 62: the setter is commented out, the secondary scale is never shown *)
showSecondary == FALSE

(* lines 63, 197 *)
secondaryScale == <<>>

(* line 220 *)
secondaryColorName == <<"S", "e", "c", "o", "n", "d", "a", "r", "y">>

(* lines 141-151: one declaration *)
cssVariable(cssName, colorData, index) ==
  LET step == SCALE_STEPS[index]
      lch == chroma_oklch(chroma(colorData.hex).rgb)
      formattedL == toFixed3(lch[1])
      formattedC == toFixed3(lch[2])
      formattedH == IF isNaN(lch[3]) THEN <<"0", ".", "0", "0", "0">> ELSE toFixed3(lch[3])
      oklchValue == <<"o", "k", "l", "c", "h", "(">> \o formattedL \o <<" ">>
                    \o formattedC \o <<" ">> \o formattedH \o <<")">>
  IN <<" ", " ", "-", "-", "c", "o", "l", "o", "r", "-">> \o cssName \o <<"-">>
     \o NatToText(step) \o <<":", " ">> \o oklchValue \o <<";">>

(* lines 135-153: the declarations pushed for one scale *)
generateVariables(scale, name) ==
  IF Len(scale) # Len(SCALE_STEPS) THEN <<>>
  ELSE LET cssName == toCssVarName(name)
       IN [index \in 1..Len(scale) |-> cssVariable(cssName, scale[index], index)]

(* lines 130-165 *)
fullCss(scale, name) ==
  LET primary == IF Len(scale) = Len(SCALE_STEPS) THEN generateVariables(scale, name) ELSE <<>>
      secondary == IF showSecondary /\ Len(secondaryScale) = Len(SCALE_STEPS)
                   THEN generateVariables(secondaryScale, secondaryColorName) ELSE <<>>
      allCssVariables == primary \o secondary
  IN <<"@", "t", "h", "e", "m", "e", " ", "{", "\n">> \o join(allCssVariables, <<"\n">>) \o <<"\n", "}">>

(* lines 129-168 *)
handleExportCss ==
  /\ exportCode' = fullCss(colorScale, baseColorName)
  /\ showExportModal' = TRUE

-----------------------------------------------------------------------------
(* The dictionary of lib/constants: an ordered sequence of {hex, name} *)

EntryBlack == [hex |-> <<"#", "0", "0", "0", "0", "0", "0">>, name |-> <<"B", "l", "a", "c", "k">>]

EntryAzureRadiance == [hex |-> <<"#", "0", "0", "7", "F", "F", "F">>, name |-> <<"A", "z", "u", "r", "e", " ", "R", "a", "d", "i", "a", "n", "c", "e">>]

EntryIndigo == [hex |-> <<"#", "4", "F", "6", "9", "C", "6">>, name |-> <<"I", "n", "d", "i", "g", "o">>]

EntryRed == [hex |-> <<"#", "F", "F", "0", "0", "0", "0">>, name |-> <<"R", "e", "d">>]

EntryWhite == [hex |-> <<"#", "F", "F", "F", "F", "F", "F">>, name |-> <<"W", "h", "i", "t", "e">>]

(* a second entry of the colour of EntryRed *)
EntryScarlet == [hex |-> <<"#", "f", "0", "0">>, name |-> <<"S", "c", "a", "r", "l", "e", "t">>]

(* entries of pairwise different colours *)
DistinctPool == {EntryBlack, EntryAzureRadiance, EntryIndigo, EntryRed, EntryWhite}

AnyPool == DistinctPool \cup {EntryScarlet}

AppDictionary == <<EntryBlack, EntryAzureRadiance, EntryIndigo, EntryRed, EntryWhite>>

MaxDict == 3

(* the dictionaries of 1..MaxDict different entries of a pool, in every order *)
Dictionaries(pool) ==
  UNION { { d \in [1..n -> pool] : \A i, j \in 1..n : i # j => d[i] # d[j] } : n \in 1..MaxDict }

-----------------------------------------------------------------------------
(* Inputs *)

Indigo6366f1 == <<"#", "6", "3", "6", "6", "f", "1">>

(* what chroma.random().hex() and <input type="color"> can deliver: "#rrggbb" in lower case *)
PickerColors ==
  { Indigo6366f1,
    <<"#", "0", "0", "0", "0", "0", "0">> }

(* what can be typed or pasted into the text field *)
TextInputs ==
  PickerColors \cup
  { <<"r", "e", "d">>,
    <<"n", "o", "t", "-", "a", "-", "c", "o", "l", "o", "r">> }

(* the arguments of the direct calls of generateColorScale and getClosestColorName *)
FnInputs ==
  TextInputs \cup
  { <<"#", "6", "3", "6", "6", "F", "1">>,
    <<"#", "f", "f", "f", "f", "f", "f">>,
    <<"#", "f", "f", "0", "0", "0", "0">>,
    <<"#", "0", "0", "7", "f", "f", "f">>,
    <<"#", "f", "0", "0">>,
    <<"6", "3", "6", "6", "f", "1">>,
    <<"#", "6", "3", "6", "6", "f">>,
    <<>> }

(* display names passed to toCssVarName besides the names of the dictionary: *)
(* a run of three whitespace characters and a trailing space, a leading tab *)
(* and a hyphen of the name itself *)
NameInputs ==
  { <<"A", "z", "u", "r", "e", " ", "\t", " ", "R", "a", "d", "i", "a", "n", "c", "e", " ">>,
    <<"\t", "C", "o", "d", "-", "G", "r", "a", "y">>,
    <<" ", " ">> }

(* null is no text: the elements of a text are single characters *)
null == <<"null">>

NoUpdates == [hasScale |-> FALSE, scale |-> <<>>, hasName |-> FALSE, name |-> <<>>]

NoCall == [op |-> "none", threw |-> FALSE, scale |-> <<>>, name |-> <<>>]

NoRun == [recorded |-> FALSE, base |-> <<>>, scale |-> <<>>, name |-> <<>>,
          exported |-> FALSE, code |-> <<>>, again |-> FALSE]

MaxTimers == 2

(* the steps of the scale whose swatch gets clicked: the lightest, the base, the darkest *)
CopySteps == {1, 6, 10}

-----------------------------------------------------------------------------
(* The component App: state after the first render, before its effects ran *)

Init ==
  /\ baseColor = Indigo6366f1
  /\ colorScale = <<>>
  /\ baseColorName = <<"I", "n", "d", "i", "g", "o">>
  /\ copiedColor = null
  /\ showExportModal = FALSE
  /\ exportCode = <<>>
  /\ effects = <<"scale", "name">>
  /\ queued = NoUpdates
  /\ timers = 0
  /\ NAMED_COLORS = AppDictionary
  /\ fnArg = <<>>
  /\ fnRet = NoCall
  /\ firstRun = NoRun
  /\ inputValue = null
  /\ deferredBaseColor = null

(* every effect of the last render has run and every update is rendered: *)
(* React flushes the passive effects of a render before it handles an event *)
Idle == effects = <<>> /\ ~queued.hasScale /\ ~queued.hasName

(* setBaseColor(v) and the render that follows: the effects with baseColor *)
(* among their dependencies are scheduled when the value changed *)
setBaseColor(v) ==
  /\ baseColor' = v
  /\ effects' = IF v # baseColor THEN <<"scale", "name">> ELSE <<>>

(* lines 338-345: onChange of the text field *)
TextChange(v) ==
  /\ Idle
  /\ setBaseColor(v)
  /\ UNCHANGED <<colorScale, baseColorName, copiedColor, showExportModal, exportCode,
                 queued, timers, NAMED_COLORS, fnArg, fnRet, firstRun,
                 inputValue, deferredBaseColor>>

(* lines 330-336: onChange of the colour picker *)
PickerChange(v) ==
  /\ Idle
  /\ setBaseColor(v)
  /\ UNCHANGED <<colorScale, baseColorName, copiedColor, showExportModal, exportCode,
                 queued, timers, NAMED_COLORS, fnArg, fnRet, firstRun,
                 inputValue, deferredBaseColor>>

(* lines 111-114, from the button of lines 348-357 *)
generateRandomColor(randomColor) ==
  /\ Idle
  /\ setBaseColor(randomColor)
  /\ UNCHANGED <<colorScale, baseColorName, copiedColor, showExportModal, exportCode,
                 queued, timers, NAMED_COLORS, fnArg, fnRet, firstRun,
                 inputValue, deferredBaseColor>>

(* lines 174-179: the space bar on document.body, also while the modal is open *)
handleKeyPress(randomColor) ==
  /\ Idle
  /\ setBaseColor(randomColor)
  /\ UNCHANGED <<colorScale, baseColorName, copiedColor, showExportModal, exportCode,
                 queued, timers, NAMED_COLORS, fnArg, fnRet, firstRun,
                 inputValue, deferredBaseColor>>

(* lines 186-188: useEffect(..., [baseColor]) *)
EffectColorScale ==
  /\ effects # <<>> /\ Head(effects) = "scale"
  /\ queued' = [queued EXCEPT !.hasScale = TRUE, !.scale = generateColorScale(baseColor).scale]
  /\ effects' = Tail(effects)
  /\ UNCHANGED <<baseColor, colorScale, baseColorName, copiedColor, showExportModal,
                 exportCode, timers, NAMED_COLORS, fnArg, fnRet, firstRun,
                 inputValue, deferredBaseColor>>

(* lines 202-209: useEffect(..., [baseColor, colorScale]); colorScale is the *)
(* value of the render the effect belongs to *)
EffectColorName ==
  /\ effects # <<>> /\ Head(effects) = "name"
  /\ queued' = [queued EXCEPT !.hasName = TRUE,
                              !.name = IF Len(colorScale) > 5
                                       THEN getClosestColorName(colorScale[6].hex).name
                                       ELSE getClosestColorName(baseColor).name]
  /\ effects' = Tail(effects)
  /\ UNCHANGED <<baseColor, colorScale, baseColorName, copiedColor, showExportModal,
                 exportCode, timers, NAMED_COLORS, fnArg, fnRet, firstRun,
                 inputValue, deferredBaseColor>>

(* variant of Render: the new colorScale does not schedule the name effect again *)
Render_noNameEffect ==
  /\ effects = <<>>
  /\ queued.hasScale \/ queued.hasName
  /\ colorScale' = IF queued.hasScale THEN queued.scale ELSE colorScale
  /\ baseColorName' = IF queued.hasName THEN queued.name ELSE baseColorName
  /\ effects' = <<>>
  /\ queued' = NoUpdates
  /\ firstRun' \in IF ~firstRun.recorded
                     THEN {firstRun, [NoRun EXCEPT !.recorded = TRUE, !.base = baseColor,
                                                   !.scale = colorScale',
                                                   !.name = baseColorName']}
                     ELSE IF firstRun.base = baseColor
                     THEN {[firstRun EXCEPT !.again = TRUE]}
                     ELSE {firstRun}
  /\ UNCHANGED <<baseColor, copiedColor, showExportModal, exportCode, timers,
                 NAMED_COLORS, fnArg, fnRet,
                 inputValue, deferredBaseColor>>

(* the render of the queued updates: a new array for colorScale is a changed *)
(* dependency of the effect of lines 202-209 *)
Render ==
  /\ effects = <<>>
  /\ queued.hasScale \/ queued.hasName
  /\ colorScale' = IF queued.hasScale THEN queued.scale ELSE colorScale
  /\ baseColorName' = IF queued.hasName THEN queued.name ELSE baseColorName
  /\ effects' = IF queued.hasScale THEN <<"name">> ELSE <<>>
  /\ queued' = NoUpdates
  /\ firstRun' \in IF effects' = <<>> /\ ~firstRun.recorded
                     THEN {firstRun, [NoRun EXCEPT !.recorded = TRUE, !.base = baseColor,
                                                   !.scale = colorScale',
                                                   !.name = baseColorName']}
                     ELSE IF effects' = <<>> /\ firstRun.base = baseColor
                     THEN {[firstRun EXCEPT !.again = TRUE]}
                     ELSE {firstRun}
  /\ UNCHANGED <<baseColor, copiedColor, showExportModal, exportCode, timers,
                 NAMED_COLORS, fnArg, fnRet,
                 inputValue, deferredBaseColor>>

(* variant of ExportCssButton: the button is never disabled *)
ExportCssButton_enabled ==
  /\ Idle
  /\ handleExportCss
  /\ firstRun' = IF firstRun.recorded /\ firstRun.base = baseColor /\ ~firstRun.exported
                 THEN [firstRun EXCEPT !.exported = TRUE, !.code = exportCode']
                 ELSE firstRun
  /\ UNCHANGED <<baseColor, colorScale, baseColorName, copiedColor, effects, queued,
                 timers, NAMED_COLORS, fnArg, fnRet,
                 inputValue, deferredBaseColor>>

(* lines 358-367: the Export CSS button, disabled unless the scale has 10 steps *)
ExportCssButton ==
  /\ Idle
  /\ ~(Len(colorScale) # Len(SCALE_STEPS))
  /\ handleExportCss
  /\ firstRun' = IF firstRun.recorded /\ firstRun.base = baseColor /\ ~firstRun.exported
                 THEN [firstRun EXCEPT !.exported = TRUE, !.code = exportCode']
                 ELSE firstRun
  /\ UNCHANGED <<baseColor, colorScale, baseColorName, copiedColor, effects, queued,
                 timers, NAMED_COLORS, fnArg, fnRet,
                 inputValue, deferredBaseColor>>

(* lines 234, 241, 244: the overlay and the close button *)
CloseExportModal ==
  /\ Idle
  /\ showExportModal
  /\ showExportModal' = FALSE
  /\ UNCHANGED <<baseColor, colorScale, baseColorName, copiedColor, exportCode, effects,
                 queued, timers, NAMED_COLORS, fnArg, fnRet, firstRun,
                 inputValue, deferredBaseColor>>

(* what the page offers to copy: the hex of a step (line 436), the export code (line 257) *)
Copyable ==
  { colorScale[i].hex : i \in CopySteps \cap (1..Len(colorScale)) }
  \cup (IF showExportModal THEN {exportCode} ELSE {})

(* lines 120-124 *)
copyToClipboard(text) ==
  /\ Idle
  /\ timers < MaxTimers
  /\ copiedColor' = text
  /\ timers' = timers + 1
  /\ UNCHANGED <<baseColor, colorScale, baseColorName, showExportModal, exportCode,
                 effects, queued, NAMED_COLORS, fnArg, fnRet, firstRun,
                 inputValue, deferredBaseColor>>

(* line 123: the callback of setTimeout; equal delays expire in the order set *)
CopiedTimeout ==
  /\ Idle
  /\ timers > 0
  /\ copiedColor' = null
  /\ timers' = timers - 1
  /\ UNCHANGED <<baseColor, colorScale, baseColorName, showExportModal, exportCode,
                 effects, queued, NAMED_COLORS, fnArg, fnRet, firstRun,
                 inputValue, deferredBaseColor>>

Next ==
  \/ \E v \in TextInputs : TextChange(v)
  \/ \E v \in PickerColors : PickerChange(v)
  \/ \E v \in PickerColors : generateRandomColor(v)
  \/ \E v \in PickerColors : handleKeyPress(v)
  \/ EffectColorScale
  \/ EffectColorName
  \/ Render
  \/ ExportCssButton
  \/ CloseExportModal
  \/ \E text \in Copyable : copyToClipboard(text)
  \/ CopiedTimeout

Spec == Init /\ [][Next]_vars

-----------------------------------------------------------------------------
(* The functions called directly, one call in each behaviour, for every *)
(* argument and every dictionary *)

FnInit(pool) ==
  /\ baseColor = Indigo6366f1
  /\ colorScale = <<>>
  /\ baseColorName = <<"I", "n", "d", "i", "g", "o">>
  /\ copiedColor = null
  /\ showExportModal = FALSE
  /\ exportCode = <<>>
  /\ effects = <<>>
  /\ queued = NoUpdates
  /\ timers = 0
  /\ NAMED_COLORS \in Dictionaries(pool)
  /\ fnArg = <<>>
  /\ fnRet = NoCall
  /\ firstRun = NoRun
  /\ inputValue = null
  /\ deferredBaseColor = null

(* generateColorScale(color) *)
CallGenerateColorScale(color) ==
  /\ fnRet.op = "none"
  /\ fnArg' = color
  /\ fnRet' = LET r == generateColorScale(color)
              IN [op |-> "generateColorScale", threw |-> r.threw, scale |-> r.scale, name |-> <<>>]
  /\ colorScale' = <<>>
  /\ baseColorName' = <<"I", "n", "d", "i", "g", "o">>
  /\ exportCode' = <<>>
  /\ showExportModal' = FALSE
  /\ UNCHANGED <<baseColor, copiedColor, effects, queued, timers, NAMED_COLORS, firstRun, inputValue, deferredBaseColor>>

(* getClosestColorName(hex) *)
CallGetClosestColorName(hex) ==
  /\ fnRet.op = "none"
  /\ fnArg' = hex
  /\ fnRet' = LET r == getClosestColorName(hex)
              IN [op |-> "getClosestColorName", threw |-> r.threw, scale |-> <<>>, name |-> r.name]
  /\ colorScale' = <<>>
  /\ baseColorName' = <<"I", "n", "d", "i", "g", "o">>
  /\ exportCode' = <<>>
  /\ showExportModal' = FALSE
  /\ UNCHANGED <<baseColor, copiedColor, effects, queued, timers, NAMED_COLORS, firstRun, inputValue, deferredBaseColor>>

(* the scale of a base colour and a display name become the state that *)
(* handleExportCss reads *)
LoadScale(color, name) ==
  /\ fnRet.op = "none"
  /\ colorScale' = generateColorScale(color).scale
  /\ baseColorName' = name
  /\ exportCode' = <<>>
  /\ showExportModal' = FALSE
  /\ fnArg' = color
  /\ fnRet' = [NoCall EXCEPT !.op = "load"]
  /\ UNCHANGED <<baseColor, copiedColor, effects, queued, timers, NAMED_COLORS, firstRun, inputValue, deferredBaseColor>>

(* handleExportCss() on the loaded state, whatever the length of the scale *)
CallHandleExportCss ==
  /\ fnRet.op = "load"
  /\ handleExportCss
  /\ fnRet' = [NoCall EXCEPT !.op = "handleExportCss"]
  /\ UNCHANGED <<baseColor, colorScale, baseColorName, copiedColor, effects, queued,
                 timers, NAMED_COLORS, fnArg, firstRun,
                 inputValue, deferredBaseColor>>

(* toCssVarName(name) *)
CallToCssVarName(name) ==
  /\ fnRet.op = "none"
  /\ fnArg' = name
  /\ fnRet' = [op |-> "toCssVarName", threw |-> FALSE, scale |-> <<>>,
               name |-> toCssVarName(name)]
  /\ colorScale' = <<>>
  /\ baseColorName' = <<"I", "n", "d", "i", "g", "o">>
  /\ exportCode' = <<>>
  /\ showExportModal' = FALSE
  /\ UNCHANGED <<baseColor, copiedColor, effects, queued, timers, NAMED_COLORS, firstRun, inputValue, deferredBaseColor>>

DictionaryNames == { NAMED_COLORS[i].name : i \in 1..Len(NAMED_COLORS) } \cup {Custom}

DictionaryHexes == { NAMED_COLORS[i].hex : i \in 1..Len(NAMED_COLORS) }

FnNext ==
  \/ \E color \in FnInputs : CallGenerateColorScale(color)
  \/ \E hex \in FnInputs \cup DictionaryHexes : CallGetClosestColorName(hex)
  \/ \E color \in FnInputs, name \in DictionaryNames : LoadScale(color, name)
  \/ CallHandleExportCss
  \/ \E name \in NameInputs \cup DictionaryNames : CallToCssVarName(name)

(* dictionaries that may hold the same colour twice *)
SpecFn == FnInit(AnyPool) /\ [][FnNext]_vars

(* dictionaries of pairwise different colours *)
SpecUniq == FnInit(DistinctPool) /\ [][FnNext]_vars

-----------------------------------------------------------------------------
(* The component App of src/README.md: the text field validates its value, *)
(* the scale and the name are useMemo values of the deferred base colour *)

(* what can be typed or pasted into the text field *)
ReadmeTextInputs ==
  { <<"6", "3", "6", "6", "f", "1">>,
    <<"#", "6", "3", "6", "6", "F", "1">>,
    <<"#", "6", "3", "6", "6", "f">>,
    <<"#", "f", "0", "0">>,
    <<"#", "0", "0", "0", "0", "0", "0">>,
    <<"r", "e", "d">>,
    <<>> }

(* README.md line 81 *)
formattedValue(nextValue) ==
  IF Len(nextValue) > 0 /\ nextValue[1] = "#" THEN nextValue ELSE <<"#">> \o nextValue

(* variant of textChange: no validity check before chroma(formattedValue).hex() *)
textChange_unchecked(nextValue) ==
  LET c == chroma(formattedValue(nextValue))
  IN [threw |-> c.threw, inputValue |-> formattedValue(nextValue),
      setsBase |-> ~c.threw, base |-> IF c.threw THEN <<>> ELSE chroma_hex(c.rgb)]

(* variant of textChange: the text of the field becomes the base colour as it is *)
textChange_unvalidated(nextValue) ==
  [threw |-> FALSE, inputValue |-> formattedValue(nextValue),
   setsBase |-> TRUE, base |-> formattedValue(nextValue)]

(* README.md lines 77-89: what handleTextChange passes to the setters, and *)
(* whether it throws *)
textChange(nextValue) ==
  LET fv == formattedValue(nextValue)
  IN IF chroma_valid(fv)
     THEN LET c == chroma(fv)
          IN [threw |-> c.threw, inputValue |-> fv, setsBase |-> ~c.threw,
              base |-> IF c.threw THEN <<>> ELSE chroma_hex(c.rgb)]
     ELSE [threw |-> FALSE, inputValue |-> fv, setsBase |-> FALSE, base |-> <<>>]

(* README.md lines 158-166: the two useMemo values for a deferred base colour *)
memoColorScale(deferred) == generateColorScale(deferred).scale

memoBaseColorName(deferred) ==
  LET scale == memoColorScale(deferred)
      hexToName == IF Len(scale) > 5 THEN scale[6].hex ELSE deferred
  IN getClosestColorName(hexToName).name

(* README.md lines 68-74, 158-166: the state after the first render *)
ReadmeInit ==
  /\ baseColor = Indigo6366f1
  /\ inputValue = Indigo6366f1
  /\ deferredBaseColor = Indigo6366f1
  /\ NAMED_COLORS = AppDictionary
  /\ colorScale = generateColorScale(Indigo6366f1).scale
  /\ baseColorName = (LET scale == generateColorScale(Indigo6366f1).scale
                      IN getClosestColorName(scale[6].hex).name)
  /\ copiedColor = null
  /\ showExportModal = FALSE
  /\ exportCode = <<>>
  /\ effects = <<>>
  /\ queued = NoUpdates
  /\ timers = 0
  /\ fnArg = <<>>
  /\ fnRet = NoCall
  /\ firstRun = NoRun

(* what every action of this version leaves alone *)
appOnly == <<effects, queued, NAMED_COLORS, fnArg, fnRet, firstRun>>

(* README.md lines 77-89; the setters called before a throw keep their effect *)
handleTextChange(nextValue) ==
  /\ inputValue' = textChange(nextValue).inputValue
  /\ baseColor' = IF textChange(nextValue).setsBase THEN textChange(nextValue).base
                  ELSE baseColor
  /\ UNCHANGED <<deferredBaseColor, colorScale, baseColorName, copiedColor,
                 showExportModal, exportCode, timers, appOnly>>

(* variant of handlePickerChange: the text field is not synchronised *)
handlePickerChange_noSync(newColor) ==
  /\ baseColor' = newColor
  /\ UNCHANGED <<inputValue, deferredBaseColor, colorScale, baseColorName, copiedColor,
                 showExportModal, exportCode, timers, appOnly>>

(* README.md lines 92-96 *)
handlePickerChange(newColor) ==
  /\ baseColor' = newColor
  /\ inputValue' = newColor
  /\ UNCHANGED <<deferredBaseColor, colorScale, baseColorName, copiedColor,
                 showExportModal, exportCode, timers, appOnly>>

(* README.md lines 171-175, from the button *)
ReadmeGenerateRandomColor(randomColor) ==
  /\ baseColor' = randomColor
  /\ inputValue' = randomColor
  /\ UNCHANGED <<deferredBaseColor, colorScale, baseColorName, copiedColor,
                 showExportModal, exportCode, timers, appOnly>>

(* README.md lines 235-245: the space bar on document.body *)
ReadmeHandleKeyPress(randomColor) ==
  /\ baseColor' = randomColor
  /\ inputValue' = randomColor
  /\ UNCHANGED <<deferredBaseColor, colorScale, baseColorName, copiedColor,
                 showExportModal, exportCode, timers, appOnly>>

(* README.md lines 74, 158-166: the deferred render with the new base colour; *)
(* both useMemo values are computed again in it *)
DeferredRender ==
  /\ deferredBaseColor # baseColor
  /\ deferredBaseColor' = baseColor
  /\ colorScale' = memoColorScale(baseColor)
  /\ baseColorName' = memoBaseColorName(baseColor)
  /\ UNCHANGED <<baseColor, inputValue, copiedColor, showExportModal, exportCode,
                 timers, appOnly>>

(* README.md lines 190-227: no @theme wrapper, a newline after the last line *)
readmeFullCss(scale, name) ==
  LET allCssVariables == IF Len(scale) = Len(SCALE_STEPS)
                         THEN generateVariables(scale, name) ELSE <<>>
  IN join(allCssVariables, <<"\n">>) \o <<"\n">>

(* README.md lines 311-320 and 190-230: the Export CSS button and its handler *)
ReadmeExportCssButton ==
  /\ ~(Len(colorScale) # Len(SCALE_STEPS))
  /\ exportCode' = readmeFullCss(colorScale, baseColorName)
  /\ showExportModal' = TRUE
  /\ UNCHANGED <<baseColor, inputValue, deferredBaseColor, colorScale, baseColorName,
                 copiedColor, timers, appOnly>>

(* README.md lines 376-393: the overlay and the close button *)
ReadmeCloseExportModal ==
  /\ showExportModal
  /\ showExportModal' = FALSE
  /\ UNCHANGED <<baseColor, inputValue, deferredBaseColor, colorScale, baseColorName,
                 copiedColor, exportCode, timers, appOnly>>

(* README.md lines 181-185 *)
ReadmeCopyToClipboard(text) ==
  /\ timers < MaxTimers
  /\ copiedColor' = text
  /\ timers' = timers + 1
  /\ UNCHANGED <<baseColor, inputValue, deferredBaseColor, colorScale, baseColorName,
                 showExportModal, exportCode, appOnly>>

(* README.md line 184: the callback of setTimeout *)
ReadmeCopiedTimeout ==
  /\ timers > 0
  /\ copiedColor' = null
  /\ timers' = timers - 1
  /\ UNCHANGED <<baseColor, inputValue, deferredBaseColor, colorScale, baseColorName,
                 showExportModal, exportCode, appOnly>>

ReadmeNext ==
  \/ \E v \in ReadmeTextInputs : handleTextChange(v)
  \/ \E v \in PickerColors : handlePickerChange(v)
  \/ \E v \in PickerColors : ReadmeGenerateRandomColor(v)
  \/ \E v \in PickerColors : ReadmeHandleKeyPress(v)
  \/ DeferredRender
  \/ ReadmeExportCssButton
  \/ ReadmeCloseExportModal
  \/ \E text \in Copyable : ReadmeCopyToClipboard(text)
  \/ ReadmeCopiedTimeout

SpecReadme == ReadmeInit /\ [][ReadmeNext]_vars

-----------------------------------------------------------------------------
(* Properties *)

IsSixDigitHex(s) ==
  LET body == IF Len(s) > 0 /\ s[1] = "#" THEN Tail(s) ELSE s
  IN Len(body) = 6 /\ IsHex(body)

(* C1: for every valid 6-digit hex base colour generateColorScale returns 10 *)
(* entries and the hex of the entry at index 5 is the argument, character for *)
(* character *)
C1_BaseStepIsInput ==
  (fnRet.op = "generateColorScale" /\ IsSixDigitHex(fnArg))
    => (~fnRet.threw /\ Len(fnRet.scale) = 10 /\ fnRet.scale[6].hex = fnArg)

(* an upper-case argument, which a conversion would have changed *)
C1_Witness ==
  /\ fnRet.op = "generateColorScale"
  /\ fnArg = <<"#", "6", "3", "6", "6", "F", "1">>
  /\ Len(fnRet.scale) = 10
  /\ fnRet.scale[6].hex = <<"#", "6", "3", "6", "6", "F", "1">>
  /\ fnRet.scale[5].hex = <<"#", "8", "b", "8", "3", "f", "5">>

(* C2: in every reachable state of the application the colour scale has *)
(* length 0 or length 10 *)
C2_ScaleLengthZeroOrTen ==
  Len(colorScale) = 0 \/ Len(colorScale) = 10

(* an unparseable base colour replaced a colour whose scale had been exported *)
C2_Witness ==
  /\ Idle
  /\ ~chroma_valid(baseColor)
  /\ Len(colorScale) = 0
  /\ showExportModal

(* C3: for an argument that chroma cannot parse generateColorScale returns *)
(* the empty scale and raises no error *)
C3_FailsClosed ==
  (fnRet.op = "generateColorScale" /\ ~chroma_valid(fnArg))
    => (~fnRet.threw /\ fnRet.scale = <<>>)

C3_Witness ==
  /\ fnRet.op = "generateColorScale"
  /\ fnArg = <<"n", "o", "t", "-", "a", "-", "c", "o", "l", "o", "r">>
  /\ ~fnRet.threw
  /\ fnRet.scale = <<>>

(* C4: an export on a scale whose length is not 10 sets the export code to *)
(* no text and presents no export result *)
C4_IncompleteScaleNoOutput ==
  (fnRet.op = "handleExportCss" /\ Len(colorScale) # 10)
    => (exportCode = <<>> /\ ~showExportModal)

StepLabels ==
  << <<"5", "0">>, <<"1", "0", "0">>, <<"2", "0", "0">>, <<"3", "0", "0">>,
     <<"4", "0", "0">>, <<"5", "0", "0">>, <<"6", "0", "0">>, <<"7", "0", "0">>,
     <<"8", "0", "0">>, <<"9", "0", "0">> >>

(* "  --color-<token>-<label>: oklch(<L> <C> <H>);" and a newline *)
DeclarationLine(scale, name, i) ==
  <<" ", " ", "-", "-", "c", "o", "l", "o", "r", "-">> \o toCssVarName(name) \o <<"-">>
  \o StepLabels[i] \o <<":", " ">> \o scale[i].oklch \o <<";", "\n">>

RECURSIVE DeclarationLines(_, _, _)
DeclarationLines(scale, name, i) ==
  IF i > Len(scale) THEN <<>>
  ELSE DeclarationLine(scale, name, i) \o DeclarationLines(scale, name, i + 1)

(* C5: for a scale of length 10 the export text is the 10 declaration lines *)
(* in scale order, each ended by a newline, and nothing else *)
C5_ExportIsTenLines ==
  (fnRet.op = "handleExportCss" /\ Len(colorScale) = 10)
    => exportCode = DeclarationLines(colorScale, baseColorName, 1)

(* C6: getClosestColorName returns a name for every argument, raises no *)
(* error, and returns "Custom" when the distance computation fails *)
C6_NamerTotal ==
  fnRet.op = "getClosestColorName"
    => /\ ~fnRet.threw
       /\ Len(fnRet.name) > 0
       /\ ~chroma_valid(fnArg) => fnRet.name = Custom

C6_Witness ==
  /\ fnRet.op = "getClosestColorName"
  /\ fnArg = <<"n", "o", "t", "-", "a", "-", "c", "o", "l", "o", "r">>
  /\ ~fnRet.threw
  /\ fnRet.name = Custom

(* the distance of the argument of the call to entry i of the dictionary *)
DistanceTo(i) == chroma_distance(fnArg, NAMED_COLORS[i].hex).val

Minimal(i) == \A j \in 1..Len(NAMED_COLORS) : DistanceTo(i) <= DistanceTo(j)

(* C7: when several entries are at the minimal distance the name returned is *)
(* the name of the first of them in dictionary order *)
C7_FirstOfTiesWins ==
  (/\ fnRet.op = "getClosestColorName"
   /\ chroma_valid(fnArg)
   /\ \E i, j \in 1..Len(NAMED_COLORS) : i < j /\ Minimal(i) /\ Minimal(j))
    => \E i \in 1..Len(NAMED_COLORS) :
         /\ Minimal(i)
         /\ \A k \in 1..(i - 1) : ~Minimal(k)
         /\ fnRet.name = NAMED_COLORS[i].name

(* two entries of different names tie at a distance above zero *)
C7_Witness ==
  /\ fnRet.op = "getClosestColorName"
  /\ chroma_valid(fnArg)
  /\ \E i, j \in 1..Len(NAMED_COLORS) :
       /\ i < j /\ Minimal(i) /\ Minimal(j)
       /\ DistanceTo(i) > 0
       /\ fnRet.name = NAMED_COLORS[i].name
       /\ NAMED_COLORS[j].name # NAMED_COLORS[i].name

(* C8: for a valid colour the name returned is the name of an entry at the *)
(* minimal distance, however large; "Custom" is returned only for an argument *)
(* that does not parse *)
C8_NearestAlwaysReturned ==
  fnRet.op = "getClosestColorName"
    => /\ chroma_valid(fnArg)
            => \E i \in 1..Len(NAMED_COLORS) :
                 Minimal(i) /\ fnRet.name = NAMED_COLORS[i].name
       /\ fnRet.name = Custom => ~chroma_valid(fnArg)

(* every entry is more than 50 Lab units away and the nearest is not the first *)
C8_Witness ==
  /\ fnRet.op = "getClosestColorName"
  /\ chroma_valid(fnArg)
  /\ Len(NAMED_COLORS) >= 2
  /\ \A j \in 1..Len(NAMED_COLORS) : DistanceTo(j) > 25000000
  /\ ~Minimal(1)
  /\ \E i \in 2..Len(NAMED_COLORS) : Minimal(i) /\ fnRet.name = NAMED_COLORS[i].name

C10_SameOutputsAsEarlierRun ==
  /\ [](Idle /\ firstRun.recorded /\ firstRun.base = baseColor
          => colorScale = firstRun.scale /\ baseColorName = firstRun.name)
  /\ [][(/\ firstRun.exported /\ firstRun.base = baseColor
         /\ ~showExportModal /\ showExportModal')
          => exportCode' = firstRun.code]_vars

(* the base colour of the recorded run is back and exported again, after a *)
(* swatch of another scale was copied *)
C10_Witness ==
  /\ Idle
  /\ firstRun.recorded /\ firstRun.exported /\ firstRun.again
  /\ firstRun.base = baseColor
  /\ showExportModal
  /\ exportCode = firstRun.code
  /\ copiedColor # null
  /\ copiedColor # exportCode
  /\ \A i \in 1..Len(colorScale) : colorScale[i].hex # copiedColor

(* the name the code looks up for a rendered scale and base colour, lines 203-207 *)
NameOf(scale, base) ==
  IF Len(scale) > 5 THEN getClosestColorName(scale[6].hex).name
  ELSE getClosestColorName(base).name

(* C11: once the effects that a change of the base colour scheduled have run, *)
(* the scale is the scale of the current base colour and the display name is *)
(* the name of the hex of its step 500, or the name of the base colour itself *)
(* when the scale is empty; a name of an earlier base colour does not stay *)
C11_NameFollowsBaseColor ==
  Idle => /\ colorScale = generateColorScale(baseColor).scale
          /\ baseColorName = NameOf(colorScale, baseColor)

(* the base colour was changed to black after its first value was named *)
C11_Witness ==
  /\ Idle
  /\ baseColor = <<"#", "0", "0", "0", "0", "0", "0">>
  /\ Len(colorScale) = 10
  /\ baseColorName = <<"B", "l", "a", "c", "k">>
  /\ firstRun.recorded
  /\ firstRun.base = Indigo6366f1
  /\ firstRun.name # baseColorName

(* the lightness of a step, in thousandths: the first component of oklch() *)
Lightness(step) == chroma_oklch(chroma(step.hex).rgb)[1]

(* C12: in every generated scale of length 10 the lightness of a step is *)
(* greater than or equal to the lightness of every later step *)
C12_LightnessNonIncreasing ==
  (fnRet.op = "generateColorScale" /\ Len(fnRet.scale) = 10)
    => \A i, j \in 1..10 :
         i < j => Lightness(fnRet.scale[i]) >= Lightness(fnRet.scale[j])

(* pure white: the six steps up to the base are equally light, the rest darker *)
C12_Witness ==
  /\ fnRet.op = "generateColorScale"
  /\ fnArg = HexWhite
  /\ Len(fnRet.scale) = 10
  /\ Lightness(fnRet.scale[1]) = Lightness(fnRet.scale[6])
  /\ Lightness(fnRet.scale[6]) > Lightness(fnRet.scale[7])
  /\ Lightness(fnRet.scale[7]) > Lightness(fnRet.scale[10])

(* the share of the anchor in the mix of the step at an index counted from 0: *)
(* chroma.mix(anchor, color, 1 - ratio) gives the colour the share 1 - ratio *)
AnchorWeight(index) == mixRatios[index + 1]

(* C13: the anchor weights of a call strictly decrease over indices 0..5, *)
(* strictly increase over indices 5..9, are 0 at index 5 and equal at the *)
(* indices 5-k and 5+k whenever both exist; the anchor is white at indices *)
(* 0-4 and black at indices 6-9 *)
C13_MixTableShape ==
  fnRet.op = "generateColorScale"
    => /\ Len(mixRatios) = 10
       /\ \A i \in 0..4 : AnchorWeight(i) > AnchorWeight(i + 1)
       /\ \A i \in 5..8 : AnchorWeight(i) < AnchorWeight(i + 1)
       /\ AnchorWeight(5) = 0
       /\ \A k \in 1..5 :
            (5 - k >= 0 /\ 5 + k <= 9) => AnchorWeight(5 - k) = AnchorWeight(5 + k)
       /\ \A i \in 0..4 : mixColors(fnArg)[i + 1] = HexWhite
       /\ \A i \in 6..9 : mixColors(fnArg)[i + 1] = HexBlack

(* a call whose steps are the mixes the table prescribes: step 50 is white *)
(* with 5% of the base colour, step 900 is black with 20% of it *)
C13_Witness ==
  /\ fnRet.op = "generateColorScale"
  /\ fnArg = Indigo6366f1
  /\ Len(fnRet.scale) = 10
  /\ fnRet.scale[1].hex = chroma_hex(chroma_mix(HexWhite, fnArg, 5).rgb)
  /\ fnRet.scale[10].hex = chroma_hex(chroma_mix(HexBlack, fnArg, 20).rgb)
  /\ fnRet.scale[1].hex # fnRet.scale[10].hex

(* the positions of a name that give a character of its token: every *)
(* character that is not whitespace and the first character of every run of *)
(* whitespace *)
TokenPositions(s) ==
  SelectSeq([i \in 1..Len(s) |-> i],
            LAMBDA i : s[i] \notin Whitespace \/ i = 1 \/ s[i - 1] \notin Whitespace)

(* one hyphen for a run of whitespace, the lower-case letter for a letter, *)
(* every other character as it is *)
Token(s) ==
  LET pos == TokenPositions(s)
  IN [k \in 1..Len(pos) |-> IF s[pos[k]] \in Whitespace THEN "-"
                            ELSE toLowerCaseChar(s[pos[k]])]

(* C14: toCssVarName lowercases every letter, replaces every maximal run of *)
(* whitespace by exactly one hyphen and keeps every other character in *)
(* order; its result has no whitespace and is a fixed point of toCssVarName *)
C14_TokenForm ==
  fnRet.op = "toCssVarName"
    => /\ fnRet.name = Token(fnArg)
       /\ \A i \in 1..Len(fnRet.name) : fnRet.name[i] \notin Whitespace
       /\ toCssVarName(fnRet.name) = fnRet.name

(* a name with upper-case letters, a run of three whitespace characters and *)
(* a trailing space *)
C14_Witness ==
  /\ fnRet.op = "toCssVarName"
  /\ fnArg = <<"A", "z", "u", "r", "e", " ", "\t", " ", "R", "a", "d", "i", "a", "n", "c", "e", " ">>
  /\ fnRet.name = <<"a", "z", "u", "r", "e", "-", "r", "a", "d", "i", "a", "n", "c", "e", "-">>

(* the parts of a text between the occurrences of a separator character *)
RECURSIVE SplitBy(_, _)
SplitBy(s, sep) ==
  LET k == IndexOf(sep, s)
  IN IF k = 0 THEN <<s>>
     ELSE <<SubSeq(s, 1, k - 1)>> \o SplitBy(SubSeq(s, k + 1, Len(s)), sep)

StartsWith(s, prefix) ==
  Len(s) >= Len(prefix) /\ SubSeq(s, 1, Len(prefix)) = prefix

(* the lines of an export text that declare a custom property *)
DeclarationsOf(code) ==
  SelectSeq(SplitBy(code, "\n"),
            LAMBDA l : StartsWith(l, <<" ", " ", "-", "-", "c", "o", "l", "o", "r", "-">>))

(* the three fields of "oklch(L C H)" *)
OklchFields(text) == SplitBy(SubSeq(text, 7, Len(text) - 1), " ")

(* the fields of the value of a declaration "  --color-x-50: oklch(L C H);" *)
DeclarationFields(line) ==
  OklchFields(SubSeq(line, IndexOf(":", line) + 2, Len(line) - 1))

(* the hue chroma reports for a step *)
Hue(step) == chroma_oklch(chroma(step.hex).rgb)[3]

Zero3 == <<"0", ".", "0", "0", "0">>

(* the fields rendered for a step: none is "NaN", an undefined hue is "0.000" *)
RenderedWithoutNaN(step, fields) ==
  /\ Len(fields) = 3
  /\ \A k \in 1..3 : fields[k] # <<"N", "a", "N">>
  /\ isNaN(Hue(step)) => fields[3] = Zero3

(* C15: an undefined hue is rendered as "0.000" in the oklch text stored *)
(* with a step and in every line of the export, and no field is "NaN"; for *)
(* base colour #000000 the hue of all 10 steps is undefined and each of the *)
(* 10 export lines has 0.000 as its hue *)
C15_UndefinedHueIsZero ==
  /\ fnRet.op = "generateColorScale"
       => /\ \A i \in 1..Len(fnRet.scale) :
               RenderedWithoutNaN(fnRet.scale[i], OklchFields(fnRet.scale[i].oklch))
          /\ fnArg = HexBlack
               => /\ Len(fnRet.scale) = 10
                  /\ \A i \in 1..10 : isNaN(Hue(fnRet.scale[i]))
  /\ (fnRet.op = "handleExportCss" /\ Len(colorScale) = 10)
       => LET lines == DeclarationsOf(exportCode)
          IN /\ Len(lines) = 10
             /\ \A i \in 1..10 :
                  RenderedWithoutNaN(colorScale[i], DeclarationFields(lines[i]))
             /\ fnArg = HexBlack
                  => \A i \in 1..10 : DeclarationFields(lines[i])[3] = Zero3

(* the export of the scale of #000000: ten lines of hue 0.000, the first of *)
(* them of step 50 with its stored text *)
C15_Witness ==
  /\ fnRet.op = "handleExportCss"
  /\ fnArg = HexBlack
  /\ Len(colorScale) = 10
  /\ \A i \in 1..10 : isNaN(Hue(colorScale[i]))
  /\ colorScale[1].oklch = <<"o", "k", "l", "c", "h", "(", "0", ".", "9", "5", "8", " ",
                             "0", ".", "0", "0", "0", " ", "0", ".", "0", "0", "0", ")">>
  /\ Len(DeclarationsOf(exportCode)) = 10
  /\ \A i \in 1..10 : DeclarationFields(DeclarationsOf(exportCode)[i])[3] = Zero3

(* a hex colour of 3 or 6 digits, with or without the leading "#" *)
IsHexColour(s) ==
  LET body == IF Len(s) > 0 /\ s[1] = "#" THEN Tail(s) ELSE s
  IN Len(body) \in {3, 6} /\ IsHex(body)

(* "#rrggbb" in lower case *)
IsNormalizedHex(s) ==
  /\ Len(s) = 7
  /\ s[1] = "#"
  /\ \A i \in 2..7 : IndexOf(s[i], HexDigits) > 0

(* C16: for a base colour given as a hex colour of 3 or 6 digits, in either *)
(* case, with or without "#", the hex of each of the 10 steps of the *)
(* generated scale, step 500 included, is "#rrggbb" in lower case *)
C16_HexNormalized ==
  (fnRet.op = "generateColorScale" /\ IsHexColour(fnArg))
    => /\ Len(fnRet.scale) = 10
       /\ \A i \in 1..10 : IsNormalizedHex(fnRet.scale[i].hex)

(* C17: a base colour that is not a hex colour of 3 or 6 digits, such as the *)
(* named colour "red", never is the base of a scale of 10 steps *)
C17_OnlyHexAccepted ==
  (Idle /\ ~IsHexColour(baseColor)) => Len(colorScale) = 0

(* C18: the export code is set and the modal is opened only in a state whose *)
(* scale has 10 steps, and whenever the modal is visible the export code *)
(* holds exactly 10 declaration lines *)
C18_ExportOnlyOfFullScale ==
  /\ [](showExportModal => Len(DeclarationsOf(exportCode)) = 10)
  /\ [][(exportCode' # exportCode \/ (~showExportModal /\ showExportModal'))
          => Len(colorScale) = 10]_vars

(* the modal of an earlier export is still open over an empty scale, where *)
(* the button is disabled *)
C18_Witness ==
  /\ Idle
  /\ showExportModal
  /\ Len(colorScale) = 0
  /\ Len(DeclarationsOf(exportCode)) = 10
  /\ Len(SplitBy(exportCode, "\n")) = 12

C22_ModalExportIsCurrent ==
  (Idle /\ showExportModal) => exportCode = fullCss(colorScale, baseColorName)

(* C23: the copied indicator is reset to null only by the timer of the copy *)
(* that set it. Timers of equal delay fire in the order they were set, so *)
(* the timer that fires belongs to the last copy only when it is the only *)
(* one pending *)
C23_ResetOnlyByOwnTimer ==
  [][(copiedColor # null /\ copiedColor' = null) => timers = 1]_vars

====
